---- MODULE Spec2Model ----
(***************************************************************************)
(* Model of the two procedures of notebooks/Part 2. Supervised             *)
(* learning.ipynb: the decision-boundary renderer                          *)
(* plot_svc_decision_function(clf, ax=None) and the demo driver            *)
(* plot_svm(N=10), together with the pyplot state they act on (the list of *)
(* figures, the current axes, each axes' limits, autoscale flags and drawn *)
(* artists).                                                               *)
(*                                                                         *)
(* Numbers.  Coordinates and scores are rationals with denominator         *)
(* Scale = NSamples - 1, stored as their integer numerators: the k-th of   *)
(* the NSamples evenly spaced samples of [lo, hi] is lo + k*(hi-lo)/Scale, *)
(* stored as lo*Scale + k*(hi-lo).  Axis limits are stored unscaled.       *)
(* Floating-point rounding is not modelled.                                *)
(*                                                                         *)
(* Library behaviour.  The classifier and the plotting library are not     *)
(* part of the repository.  A classifier is a linear score a*x + b*y + c   *)
(* whose evaluation may raise on some points.  An axes whose limits were   *)
(* set with xlim/ylim keeps them; an axes that still autoscales takes new  *)
(* limits when something is drawn on it: a window that depends on the data *)
(* for a scatter, the smallest window holding its old limits and the grid  *)
(* for a contour set.                                                      *)
(***************************************************************************)
EXTENDS Integers, Sequences, FiniteSets, TLC

VARIABLES
  figs,   \* pyplot's figures, oldest first; the last one is the current one
  calls,  \* one record per call of plot_svc_decision_function, in order
  svm     \* the last call of plot_svm: its N, its X and y, whether it raised

vars == <<figs, calls, svm>>

--------------------------------------------------------------------------
(* Program constants *)

NSamples == 30
NDataset == 200
DefaultN == 10

(* Bounds of the model *)

MaxFigs == 2     \* figures opened in one run
MaxCalls == 2    \* renderer calls in one run (the driver's included)

Scale == NSamples - 1

Min(a, b) == IF a < b THEN a ELSE b

Max(a, b) == IF a > b THEN a ELSE b

--------------------------------------------------------------------------
(* numpy *)

\* np.linspace(lo, hi, num): num samples, endpoint included, as numerators
\* over num - 1, indexed from 0.
Linspace(lo, hi, num) ==
  [k \in 0 .. (num - 1) |-> lo * (num - 1) + k * (hi - lo)]

\* np.meshgrid with indexing='ij': the first array repeats a along every
\* column, the second repeats b along every row.
MeshgridIJ(a, b) ==
  LET cells == (DOMAIN a) \X (DOMAIN b)
  IN  << [c \in cells |-> a[c[1]]], [c \in cells |-> b[c[2]]] >>

\* np.meshgrid(a, b) with the default indexing='xy': two arrays of shape
\* (len(b), len(a)); the first repeats a along every row, the second
\* repeats b along every column.
Meshgrid(a, b) ==
  LET cells == (DOMAIN b) \X (DOMAIN a)
  IN  << [c \in cells |-> a[c[2]]], [c \in cells |-> b[c[1]]] >>

\* np.zeros_like(A)
ZerosLike(A) == [c \in DOMAIN A |-> 0]

\* A[:n + 1]: a slice that takes one row too many.
PrefixInclusive(A, n) ==
  IF n + 1 >= 0 THEN SubSeq(A, 1, Min(n + 1, Len(A)))
                ELSE SubSeq(A, 1, Max(Len(A) + n + 1, 0))

\* A[:n] on a sequence: Python's slice clamps n to the length and counts a
\* negative n from the end.
Prefix(A, n) ==
  IF n >= 0 THEN SubSeq(A, 1, Min(n, Len(A)))
            ELSE SubSeq(A, 1, Max(Len(A) + n, 0))

--------------------------------------------------------------------------
(* The classifier *)

\* Classifier objects handed to the renderer directly: a fitted one, and
\* one whose decision_function rejects points right of x = 0.
Clfs ==
  { [a |-> 2, b |-> -1, c |-> 3, fails |-> "never", sv |-> <<>>],
    [a |-> 1, b |-> 0, c |-> 0, fails |-> "xpos", sv |-> <<>>] }

\* Whether clf.decision_function raises at the point pt.
Raises(clf, pt) == clf.fails = "xpos" /\ pt[1] > 0

\* clf.decision_function(point) of a linear classifier, as a numerator
\* over Scale.
DecisionFunction(clf, pt) == clf.a * pt[1] + clf.b * pt[2] + clf.c * Scale

\* The first point of each class, in training order.
FirstOfEach(X, y) ==
  LET first(l) == CHOOSE k \in 1 .. Len(y) :
                    y[k] = l /\ \A m \in 1 .. (k - 1) : y[m] # l
      p == first(0)
      q == first(1)
  IN  << X[Min(p, q)], X[Max(p, q)] >>

\* SVC(kernel='linear').fit(X, y) raises unless both classes occur in y.
FitRaises(X, y) == Cardinality({ y[k] : k \in 1 .. Len(y) }) < 2

\* The classifiers fit may return.  The optimiser's result is not
\* modelled; two outcomes stand for it, one retaining the first point of
\* each class as support vectors and one retaining every training point.
FitResults(X, y) ==
  { [a |-> 1, b |-> 0, c |-> 0, fails |-> "never", sv |-> FirstOfEach(X, y)],
    [a |-> 2, b |-> -1, c |-> 3, fails |-> "never", sv |-> X] }

--------------------------------------------------------------------------
(* pyplot *)

\* The limits autoscaling gives the scatter of the notebook's global point
\* set (make_blobs with random_state=0: the same points in every run).
\* Their values depend on the data and the library; any window other than
\* the default one stands for them.
XView == [x |-> <<-2, 3>>, y |-> <<-1, 2>>]

\* Limits autoscaling may give a scatter of other points.
Views == { XView, [x |-> <<0, 3>>, y |-> <<-3, 5>>] }

\* The smallest interval holding both.
Hull(l1, l2) == << Min(l1[1], l2[1]), Max(l1[2], l2[2]) >>

NewAxes ==
  [xlim |-> <<0, 1>>, ylim |-> <<0, 1>>, autox |-> TRUE, autoy |-> TRUE,
   artists |-> <<>>]

\* No new figure unless there is none: what follows draws on the current
\* axes.
FigureReuse(fs) == IF fs = <<>> THEN Append(fs, NewAxes) ELSE fs

\* plt.figure(): a new figure with fresh axes, which becomes current.
Figure(fs) == Append(fs, NewAxes)

\* plt.gca(): the current axes, created when there is no figure yet.
Gca(fs) == IF fs = <<>> THEN Figure(fs) ELSE fs

Cur(fs) == Len(fs)

\* The artist is added to the current axes, whatever k is.
DrawOnCurrent(fs, k, artist, v) ==
  [fs EXCEPT ![Len(fs)] =
     [@ EXCEPT !.artists = Append(@, artist),
               !.xlim = IF fs[Len(fs)].autox THEN v.x ELSE @,
               !.ylim = IF fs[Len(fs)].autoy THEN v.y ELSE @]]

\* ax.add_collection + autoscale_view: the artist is added to axes k, and
\* each axis still autoscaling takes the limits v.
Draw(fs, k, artist, v) ==
  [fs EXCEPT ![k] =
     [@ EXCEPT !.artists = Append(@, artist),
               !.xlim = IF fs[k].autox THEN v.x ELSE @,
               !.ylim = IF fs[k].autoy THEN v.y ELSE @]]

\* plt.scatter(...) draws on the current axes.
Scatter(fs, data, pts, c, s, v) ==
  LET g == Gca(fs)
  IN  Draw(g, Cur(g),
           [kind |-> "scatter", data |-> data, pts |-> pts, c |-> c, s |-> s],
           v)

\* Limits set without turning autoscaling off.
XlimKeepAuto(fs, lim) ==
  LET g == IF fs = <<>> THEN Append(fs, NewAxes) ELSE fs
  IN  [g EXCEPT ![Len(g)] = [@ EXCEPT !.xlim = lim]]

\* plt.xlim(lo, hi): sets the current axes' x limits and turns x
\* autoscaling off.
Xlim(fs, lim) ==
  LET g == Gca(fs)
  IN  [g EXCEPT ![Cur(g)] = [@ EXCEPT !.xlim = lim, !.autox = FALSE]]

\* plt.ylim(lo, hi)
Ylim(fs, lim) ==
  LET g == Gca(fs)
  IN  [g EXCEPT ![Cur(g)] = [@ EXCEPT !.ylim = lim, !.autoy = FALSE]]

--------------------------------------------------------------------------
(* plot_svc_decision_function(clf, ax=None) *)

\* The default of the parameter ax (None); an axes is named by its figure's
\* position in figs, 1 .. Len(figs).
NoAx == 0

\* Levels two units apart.
LevelsWide == <<-2, 0, 2>>

\* levels=[-1, 0, 1] and linestyles=['--', '-', '--'] of the contour call.
Levels == <<-1, 0, 1>>

Linestyles == <<"--", "-", "--">>

\* The axes the contours are drawn on: ax, or plt.gca() when ax is None.
Target(g, ax) == IF ax = NoAx THEN Cur(g) ELSE ax

\* The double loop visits the cells (i, j) row by row: the number of
\* evaluations made before cell c is reached.
Ord(c, y) == c[1] * Cardinality(DOMAIN y) + c[2]

\* How many evaluations of the loop return before one raises: all of them
\* when none does.
FirstRaise(clf, x, y) ==
  LET cells == (DOMAIN x) \X (DOMAIN y)
      bad == { c \in cells : Raises(clf, <<x[c[1]], y[c[2]]>>) }
  IN  IF bad = {} THEN Cardinality(cells)
      ELSE Ord(CHOOSE c \in bad : \A d \in bad : Ord(c, y) <= Ord(d, y), y)

\* The most recent score grid drawn, or P0 when none was.
LastP(P0) ==
  LET done == { n \in 1 .. Len(calls) : ~calls[n].raised }
  IN  IF done = {} THEN P0
      ELSE LET c == calls[CHOOSE n \in done : \A m \in done : m <= n]
           IN  figs[c.target].artists[c.drawn].P

\* A loop that adds each score to an array kept from the call before.
EvalLoopAccum(clf, x, y, P0) ==
  LET stop == FirstRaise(clf, x, y)
      cells == (DOMAIN x) \X (DOMAIN y)
      old == LastP(P0)
  IN  [P |-> [c \in DOMAIN P0 |->
                IF c \in cells /\ Ord(c, y) < stop
                  THEN old[c] + DecisionFunction(clf, <<x[c[1]], y[c[2]]>>)
                  ELSE old[c]],
       evals |-> IF stop = Cardinality(cells) THEN stop ELSE stop + 1,
       raised |-> stop # Cardinality(cells)]

\* A loop that catches what an evaluation raises and goes on.
EvalLoopCatch(clf, x, y, P0) ==
  LET cells == (DOMAIN x) \X (DOMAIN y)
  IN  [P |-> [c \in DOMAIN P0 |->
                IF c \in cells /\ ~Raises(clf, <<x[c[1]], y[c[2]]>>)
                  THEN DecisionFunction(clf, <<x[c[1]], y[c[2]]>>)
                  ELSE P0[c]],
       evals |-> Cardinality(cells),
       raised |-> FALSE]

\* The double loop over enumerate(x) and enumerate(y): one evaluation per
\* cell, P[i, j] is assigned the score of (x[i], y[j]); the first
\* evaluation that raises ends the loop and the call.
EvalLoop(clf, x, y, P0) ==
  LET stop == FirstRaise(clf, x, y)
      cells == (DOMAIN x) \X (DOMAIN y)
  IN  [P |-> [c \in DOMAIN P0 |->
                IF c \in cells /\ Ord(c, y) < stop
                  THEN DecisionFunction(clf, <<x[c[1]], y[c[2]]>>)
                  ELSE P0[c]],
       evals |-> IF stop = Cardinality(cells) THEN stop ELSE stop + 1,
       raised |-> stop # Cardinality(cells)]

\* The whole function on the pyplot state fs.  The contours span the grid,
\* which spans the limits of the current axes: an autoscaling target grows
\* its limits to hold the grid (an empty one takes the grid's), so adding
\* the contours to the current axes leaves its limits as they are.
\* Returns the new
\* pyplot state and the call's record: its classifier, the axes it drew on
\* and the one it read the limits of, the limits both had when it read
\* them, its sample vectors, how many evaluations it made, whether it
\* raised, and where among the target's artists its contour set is (X, Y
\* and P are kept there).
Render(fs, clf, ax) ==
  LET g == IF ax = NoAx THEN Gca(fs) ELSE fs
      target == Target(g, ax)
      cur == Cur(g)
      x == Linspace(g[cur].xlim[1], g[cur].xlim[2], NSamples)
      y == Linspace(g[cur].ylim[1], g[cur].ylim[2], NSamples)
      m == Meshgrid(y, x)
      Y == m[1]
      X == m[2]
      loop == EvalLoop(clf, x, y, ZerosLike(X))
      artist == [kind |-> "contour", X |-> X, Y |-> Y, P |-> loop.P,
                 colors |-> "k", levels |-> Levels, alpha |-> "0.5",
                 linestyles |-> Linestyles]
      grid == [x |-> g[cur].xlim, y |-> g[cur].ylim]
      view == IF g[target].artists = <<>> THEN grid
              ELSE [x |-> Hull(g[target].xlim, grid.x),
                    y |-> Hull(g[target].ylim, grid.y)]
  IN  [figs |-> IF loop.raised THEN g ELSE Draw(g, target, artist, view),
       call |-> [clf |-> clf, target |-> target, cur |-> cur,
                 xlim |-> g[cur].xlim, ylim |-> g[cur].ylim,
                 txlim |-> g[target].xlim, tylim |-> g[target].ylim,
                 x |-> x, y |-> y,
                 evals |-> loop.evals, raised |-> loop.raised,
                 drawn |-> IF loop.raised THEN 0
                           ELSE Len(g[target].artists) + 1]]

--------------------------------------------------------------------------
(* plot_svm(N=10) *)

\* plt.xlim(-1, 4) and plt.ylim(-1, 6)
SvmXlim == <<-1, 4>>

SvmYlim == <<-1, 6>>

\* Everything after a successful fit: new figure, scatter of the prefix,
\* fixed limits, contours on plt.gca(), support-vector overlay.  v1 and v2
\* are what autoscaling would make of the scatter and of the overlay.
PlotSvmDraw(fs, X, y, clf, v1, v2) ==
  LET f1 == Figure(fs)
      f2 == Scatter(f1, "blobs", X, y, 50, v1)
      f3 == Xlim(f2, SvmXlim)
      f4 == Ylim(f3, SvmYlim)
      r == Render(f4, clf, Cur(Gca(f4)))
      f5 == Scatter(r.figs, "support_vectors_", clf.sv, "none", 200, v2)
  IN  [figs |-> f5, call |-> r.call]

--------------------------------------------------------------------------
(* The state machine *)

\* make_blobs(n_samples=200, centers=2, random_state=0, ...): the seed
\* fixes the result.  Points are named by their row, 1 .. NDataset; the
\* labels start with two points of class 0 and alternate from there.
Blobs ==
  [X |-> [i \in 1 .. NDataset |-> i],
   y |-> [i \in 1 .. NDataset |-> IF i <= 2 THEN 0 ELSE i % 2]]

\* The sample counts tried: the default, the dataset's size, and values
\* around 0 and beyond the dataset's size.
Ns == {-1, 0, 1, 2, 3, DefaultN, NDataset, NDataset + 1}

Init ==
  /\ figs = <<>>
  /\ calls = <<>>
  /\ svm = [N |-> 0, X |-> <<>>, y |-> <<>>, raised |-> FALSE]

\* A cell's plt.figure()
NewFigure ==
  /\ Len(figs) < MaxFigs
  /\ figs' = Figure(figs)
  /\ UNCHANGED <<calls, svm>>

\* A cell's plt.scatter(X[:, 0], X[:, 1], c=y, s=50, ...) of the
\* notebook's global point set.  As in each cell of the notebook that
\* draws it, the scatter is the first thing drawn on its axes.
PlotScatter ==
  /\ figs # <<>> => figs[Cur(figs)].artists = <<>>
  /\ figs' = Scatter(figs, "X", <<>>, <<>>, 50, XView)
  /\ UNCHANGED <<calls, svm>>

\* A call plot_svc_decision_function(clf) or (clf, ax).
PlotSvcDecisionFunction ==
  /\ Len(calls) < MaxCalls
  /\ \E clf \in Clfs, ax \in {NoAx} \cup (1 .. Len(figs)) :
       LET r == Render(figs, clf, ax)
       IN  /\ figs' = r.figs
           /\ calls' = Append(calls, r.call)
  /\ UNCHANGED svm

\* A call plot_svm(N).
PlotSvm ==
  /\ Len(figs) < MaxFigs
  /\ Len(calls) < MaxCalls
  /\ \E N \in Ns :
       LET X == Prefix(Blobs.X, N)
           y == Prefix(Blobs.y, N)
           rec(raised) == [N |-> N, X |-> X, y |-> y, raised |-> raised]
       IN  IF FitRaises(X, y)
             THEN /\ svm' = rec(TRUE)
                  /\ UNCHANGED <<figs, calls>>
             ELSE \E clf \in FitResults(X, y), v1 \in Views, v2 \in Views :
                    LET d == PlotSvmDraw(figs, X, y, clf, v1, v2)
                    IN  /\ figs' = d.figs
                        /\ calls' = Append(calls, d.call)
                        /\ svm' = rec(d.call.raised)

Next == NewFigure \/ PlotScatter \/ PlotSvcDecisionFunction \/ PlotSvm

Spec == Init /\ [][Next]_vars

\* Runs of the renderer on figures the cells set up themselves.
NextRender == NewFigure \/ PlotScatter \/ PlotSvcDecisionFunction

SpecRender == Init /\ [][NextRender]_vars

\* Runs made of plot_svm calls only.
SpecSvm == Init /\ [][PlotSvm]_vars

--------------------------------------------------------------------------
(* Properties *)

Idx == 0 .. (NSamples - 1)

\* The calls of the renderer that returned, and the contour set each drew.
Returned == { n \in 1 .. Len(calls) : ~calls[n].raised }

Drawn(n) == figs[calls[n].target].artists[calls[n].drawn]

\* The contour sets on an axes, in drawing order.
ContourSets(ax) == SelectSeq(ax.artists, LAMBDA a : a.kind = "contour")

\* Whether this step is a call of the renderer, and that call's record.
RenderStep == calls' # calls

ThisCall == calls'[Len(calls')]

\* C1: in every call of the renderer, with ax given or omitted, the grid
\* has 30 samples on each axis, and on each axis the first and the last
\* sample are the lower and the upper limit the target axes (the one the
\* contours are drawn on) has when the call reads the limits.
C1_GridSpansTarget ==
  \A n \in 1 .. Len(calls) :
    LET c == calls[n]
    IN  /\ DOMAIN c.x = Idx /\ DOMAIN c.y = Idx
        /\ c.x[0] = c.txlim[1] * Scale /\ c.x[NSamples - 1] = c.txlim[2] * Scale
        /\ c.y[0] = c.tylim[1] * Scale /\ c.y[NSamples - 1] = c.tylim[2] * Scale

\* C2: for a classifier with the linear score a*x + b*y + c, the score
\* drawn at every grid point is a*x + b*y + c of that point's coordinates
\* (all three as numerators over Scale), the levels of the contour call are
\* -1, 0, 1 in that order, and their styles are dashed, solid, dashed.
C2_LinearLevels ==
  \A n \in Returned :
    LET c == calls[n]
        A == Drawn(n)
    IN  /\ A.kind = "contour"
        /\ \A i \in Idx, j \in Idx :
             A.P[i, j] = c.clf.a * A.X[i, j] + c.clf.b * A.Y[i, j]
                           + c.clf.c * Scale
        /\ Len(A.levels) = 3 /\ Len(A.linestyles) = 3
        /\ A.levels[1] = -1 /\ A.levels[2] = 0 /\ A.levels[3] = 1
        /\ A.linestyles[1] = "--" /\ A.linestyles[2] = "-"
        /\ A.linestyles[3] = "--"

\* A call drew the contours of a score with a, b and c all non-zero.
C2_Witness ==
  \E n \in Returned :
    /\ calls[n].clf.a # 0 /\ calls[n].clf.b # 0 /\ calls[n].clf.c # 0
    /\ \E i \in Idx, j \in Idx : Drawn(n).P[i, j] # 0

C6_NewSurfaceOnly ==
  [][ RenderStep =>
        \A k \in 1 .. (Len(figs) - 1) :
          ContourSets(figs'[k]) = ContourSets(figs[k]) ]_vars

\* C6, amended: a call that returns adds its contour set to its target (ax,
\* or the current axes when ax is omitted) and to no other axes, whose
\* contour sets stay as they are; a call that raises adds none; so an axes
\* holds as many contour sets as calls that returned targeted it.
C6_Accumulate ==
  /\ [](\A k \in 1 .. Len(figs) :
          Len(ContourSets(figs[k]))
            = Cardinality({ n \in Returned : calls[n].target = k }))
  /\ [][ RenderStep =>
           \A k \in 1 .. Len(figs') :
             LET before == IF k <= Len(figs) THEN ContourSets(figs[k])
                           ELSE <<>>
                 after == ContourSets(figs'[k])
             IN  IF ~ThisCall.raised /\ ThisCall.target = k
                   THEN /\ Len(after) = Len(before) + 1
                        /\ SubSeq(after, 1, Len(before)) = before
                   ELSE after = before ]_vars

\* Two calls that returned targeted an axes that is not the newest one, and
\* it holds two contour sets.
C6_Witness ==
  /\ Len(figs) = 2
  /\ Len(ContourSets(figs[1])) = 2
  /\ \E n \in Returned : calls[n].target = 1 /\ calls[n].cur = 2

\* C7: when the evaluation raises at some grid point, the call raises: the
\* evaluations made are those up to the first point that raises, no
\* contour is drawn, and what every axes holds is what it held before.
C7_RaisePropagates ==
  [][ RenderStep =>
        LET c == ThisCall
            bad == { p \in Idx \X Idx : Raises(c.clf, <<c.x[p[1]], c.y[p[2]]>>) }
        IN  bad # {} =>
              /\ c.raised
              /\ c.drawn = 0
              /\ \E p \in bad :
                   /\ \A q \in bad : p[1] * NSamples + p[2] <= q[1] * NSamples + q[2]
                   /\ c.evals = p[1] * NSamples + p[2] + 1
              /\ \A k \in 1 .. Len(figs') :
                   figs'[k].artists = IF k <= Len(figs) THEN figs[k].artists
                                      ELSE <<>> ]_vars

\* A call raised part-way through the grid, on an axes that holds something.
C7_Witness ==
  \E n \in 1 .. Len(calls) :
    /\ calls[n].raised
    /\ calls[n].evals > 1 /\ calls[n].evals < NSamples * NSamples
    /\ figs[calls[n].target].artists # <<>>

\* C9: a call that returns made 900 evaluations, one per pair (x[i], y[j]);
\* cell [i, j] of the score grid holds the score of (x[i], y[j]), and cell
\* [i, j] of the coordinate grids given to the contour call holds x[i] and
\* y[j].
C9_GridAligned ==
  \A n \in Returned :
    LET c == calls[n]
        A == Drawn(n)
    IN  /\ c.evals = NSamples * NSamples
        /\ DOMAIN A.P = Idx \X Idx
        /\ DOMAIN A.X = Idx \X Idx /\ DOMAIN A.Y = Idx \X Idx
        /\ \A i \in Idx, j \in Idx :
             /\ A.X[i, j] = c.x[i]
             /\ A.Y[i, j] = c.y[j]
             /\ A.P[i, j] = c.clf.a * c.x[i] + c.clf.b * c.y[j]
                              + c.clf.c * Scale

\* A call returned on limits that differ between the axes, for a score
\* that depends on both coordinates.
C9_Witness ==
  \E n \in Returned :
    /\ calls[n].xlim # calls[n].ylim
    /\ calls[n].clf.a # 0 /\ calls[n].clf.b # 0
    /\ Drawn(n).P[0, NSamples - 1] # Drawn(n).P[NSamples - 1, 0]

--------------------------------------------------------------------------
(* Properties of plot_svm *)

\* The first n rows of the dataset.
Rows(n) == [i \in 1 .. n |-> Blobs.X[i]]

RowLabels(n) == [i \in 1 .. n |-> Blobs.y[i]]

\* C4, as stated: whatever N is, the points and the labels of plot_svm(N)
\* are the first N rows and labels of the dataset, N of each.
C4_PrefixLengthN ==
  /\ Len(svm.X) = svm.N /\ Len(svm.y) = svm.N
  /\ svm.X = Rows(svm.N) /\ svm.y = RowLabels(svm.N)

\* C4, amended: the points and labels are the first n rows and labels of
\* the dataset, in its order, where n is N for 0 <= N <= 200, 200 for
\* N > 200 and max(200 + N, 0) for N < 0; a call that gets past the fit
\* scatters exactly these points with these labels, and the support
\* vectors it marks are among them.
C4_PrefixClamped ==
  LET n == IF svm.N > NDataset THEN NDataset
           ELSE IF svm.N >= 0 THEN svm.N
           ELSE IF NDataset + svm.N >= 0 THEN NDataset + svm.N ELSE 0
  IN  /\ Len(svm.X) = n /\ Len(svm.y) = n
      /\ svm.X = Rows(n) /\ svm.y = RowLabels(n)
      /\ (figs # <<>> /\ ~svm.raised) =>
           LET a == figs[Len(figs)].artists
           IN  /\ a[1].kind = "scatter" /\ a[1].pts = svm.X /\ a[1].c = svm.y
               /\ \A k \in 1 .. Len(a[3].pts) :
                    \E i \in 1 .. n : a[3].pts[k] = Blobs.X[i]

\* plot_svm(201) returned: it scattered the 200 points there are.
C4_Witness ==
  /\ svm.N = NDataset + 1 /\ ~svm.raised
  /\ figs # <<>> /\ Len(figs[Len(figs)].artists[1].pts) = NDataset

\* C5: in every plot_svm the renderer reads the limits x in [-1, 4] and
\* y in [-1, 6] and its grid spans them, and the axes of every plot_svm
\* still has these limits after the call.
C5_FixedWindow ==
  /\ \A n \in 1 .. Len(calls) :
       /\ calls[n].xlim = <<-1, 4>> /\ calls[n].ylim = <<-1, 6>>
       /\ calls[n].x[0] = -1 * Scale /\ calls[n].x[NSamples - 1] = 4 * Scale
       /\ calls[n].y[0] = -1 * Scale /\ calls[n].y[NSamples - 1] = 6 * Scale
  /\ \A k \in 1 .. Len(figs) :
       figs[k].xlim = <<-1, 4>> /\ figs[k].ylim = <<-1, 6>>

\* Two calls with point sets of different sizes have returned.
C5_Witness ==
  /\ Len(figs) = 2 /\ Len(calls) = 2
  /\ Len(figs[1].artists[1].pts) # Len(figs[2].artists[1].pts)

\* C10: every axes plot_svm created holds the scatter of the points, then
\* one contour set, then the support-vector overlay, and nothing else; a
\* call leaves the axes of earlier calls as they are; a call whose fit
\* raises creates no figure, one whose fit returns creates one.
C10_OneFigurePerCall ==
  /\ [](\A k \in 1 .. Len(figs) :
          LET a == figs[k].artists
          IN  /\ Len(a) = 3
              /\ a[1].kind = "scatter" /\ a[1].data = "blobs"
              /\ a[2].kind = "contour"
              /\ a[3].kind = "scatter" /\ a[3].data = "support_vectors_")
  /\ [][ /\ \A k \in 1 .. Len(figs) : Len(figs') >= k /\ figs'[k] = figs[k]
         /\ svm'.raised => figs' = figs /\ calls' = calls
         /\ ~svm'.raised => Len(figs') = Len(figs) + 1 ]_vars

\* A call whose fit raised came after one that drew its figure.
C10_Witness ==
  /\ svm.raised
  /\ Len(figs) = 1 /\ Len(figs[1].artists) = 3

====
